---- MODULE Spec2Model ----
(***************************************************************************)
(* SpendShield AI: the four-node fraud detection workflow of app/graph.py  *)
(* (extractor -> verifier -> anomaly_detector -> reporter), the ledger     *)
(* queries of app/db.py it uses, and the risk level of app/live.py.        *)
(*                                                                         *)
(* Conventions.                                                            *)
(*   - Optional values: None is <<>>, a present value x is <<x>>.          *)
(*   - Strings that are pattern-matched (vendor names, item descriptions)  *)
(*     are sequences of characters; identifiers and reference numbers are  *)
(*     TLA+ strings, "" being the absent (falsy) value.                    *)
(*   - Fraud scores are counted in tenths of a point (37.5 is 375), vendor *)
(*     risk scores in tenths (0.7 is 7), money in whole currency units.    *)
(*     All decimal arithmetic is exact; on the values used here the        *)
(*     binary floating point of the program gives the same comparisons.    *)
(*   - vendors.registration_date is a day number; transaction dates are    *)
(*     [ym, d]: a month index and a day of month.                          *)
(***************************************************************************)
EXTENDS Integers, Sequences, FiniteSets, TLC

VARIABLES
    vendors,            \* ledger table vendors
    past_expenditures,  \* ledger table past_expenditures
    flags,              \* ledger table flags, in insertion order
    audit,              \* thread id -> checkpointed AuditState values
    pc,                 \* thread id -> the node the graph runs next
    reporter_locals,    \* thread id -> local variables of the last reporter_node call
    executed,           \* thread id -> the nodes the graph has executed, in order
    probe,              \* the last call made directly on a function, with its result
    analyses_cache      \* app/live.py: the entries of analyses_cache, in insertion order

vars == <<vendors, past_expenditures, flags, audit, pc, reporter_locals, executed, probe, analyses_cache>>

----------------------------------------------------------------------------
(* Bounds *)

MaxItems == 2       \* line items per extracted document
MaxFlags == 4       \* anomaly flags in a state handed directly to a node
MaxRuns == 2        \* invocations of the graph with one thread id
max_size == 2       \* AnalysisCache(max_size): entries the cache keeps (1000 in the program)
MaxLimit == 3       \* the largest limit handed to list_recent

----------------------------------------------------------------------------
(* Optional values and small helpers *)

None == <<>>
Some(x) == <<x>>
IsSome(o) == o # None
Val(o) == o[1]

SeqsUpTo(S, n) == UNION {[1..k -> S] : k \in 0..n}

RECURSIVE SumSeq(_)
SumSeq(s) == IF s = <<>> THEN 0 ELSE Head(s) + SumSeq(Tail(s))

\* Points as tenths of a point.
Points(n) == 10 * n

Threads == {"t1"}

----------------------------------------------------------------------------
(* Text matching: PostgreSQL  col ILIKE '%pattern%'  *)

Lower(c) ==
    CASE c = "A" -> "a"
      [] c = "B" -> "b"
      [] c = "C" -> "c"
      [] c = "D" -> "d"
      [] c = "P" -> "p"
      [] OTHER -> c

ILike(s, pattern) ==
    \E i \in 0..(Len(s) - Len(pattern)) :
        \A j \in 1..Len(pattern) : Lower(s[i + j]) = Lower(pattern[j])

----------------------------------------------------------------------------
(* The ledger (app/db.py) *)

\* datetime.now(), as a day number
Today == 20000

\* CURRENT_DATE
CurrentDate == [ym |-> 24300, d |-> 15]

MonthsBefore(date, months) == [ym |-> date.ym - months, d |-> date.d]

DateGE(a, b) == a.ym > b.ym \/ (a.ym = b.ym /\ a.d >= b.d)

\* Rows of the vendors table: the seeded shapes (an old low-risk vendor, a
\* recently registered high-risk one) and the boundary cases of the rules.
SeedVendors ==
    { [vendor_id |-> "VND001", vendor_name |-> <<"A", "b">>,
       registration_date |-> Today - 2000, risk_score |-> 1],
      [vendor_id |-> "VND002", vendor_name |-> <<"a", "B", "c">>,
       registration_date |-> Today - 179, risk_score |-> 7],
      [vendor_id |-> "VND004", vendor_name |-> <<"C", "d">>,
       registration_date |-> Today - 179, risk_score |-> 8],
      [vendor_id |-> "VND005", vendor_name |-> <<"d", "d">>,
       registration_date |-> Today - 180, risk_score |-> 9] }

\* Rows of the past_expenditures table.
SeedExpenditures ==
    { [reference_number |-> "INV-2023-001", vendor_id |-> "VND001",
       transaction_date |-> [ym |-> 24290, d |-> 15], amount |-> 40000,
       item_description |-> <<"P", "e", "n", "s">>, unit_price |-> 40],
      [reference_number |-> "INV-2023-045", vendor_id |-> "VND001",
       transaction_date |-> [ym |-> 24276, d |-> 15], amount |-> 38000,
       item_description |-> <<"p", "e", "n">>, unit_price |-> 38],
      [reference_number |-> "INV-2024-012", vendor_id |-> "VND001",
       transaction_date |-> [ym |-> 24299, d |-> 10], amount |-> 42000,
       item_description |-> <<"p", "e", "n">>, unit_price |-> 42],
      [reference_number |-> "INV-2021-007", vendor_id |-> "VND001",
       transaction_date |-> [ym |-> 24276, d |-> 14], amount |-> 10000,
       item_description |-> <<"p", "e", "n">>, unit_price |-> 10],
      [reference_number |-> "INV-2023-090", vendor_id |-> "VND005",
       transaction_date |-> [ym |-> 24295, d |-> 1], amount |-> 25000,
       item_description |-> <<"d", "e", "s", "k">>, unit_price |-> 500],
      [reference_number |-> "INV-2021-008", vendor_id |-> "VND001",
       transaction_date |-> [ym |-> 24276, d |-> 14], amount |-> 5000,
       item_description |-> <<"i", "n", "k">>, unit_price |-> 10],
      [reference_number |-> "INV-2024-030", vendor_id |-> "VND001",
       transaction_date |-> [ym |-> 24298, d |-> 3], amount |-> 0,
       item_description |-> <<"g", "i", "f", "t">>, unit_price |-> 0] }

\* SELECT * FROM vendors WHERE vendor_id = %s  (vendor_id is the primary key)
get_vendor_by_id(vendor_id) ==
    LET rows == {v \in vendors : v.vendor_id = vendor_id}
    IN  IF rows = {} THEN None ELSE Some(CHOOSE v \in rows : TRUE)

\* SELECT * FROM vendors WHERE vendor_name ILIKE '%name%'; fetchone() returns
\* any one of the matching rows (the query has no ORDER BY): the set of rows
\* it can return, {None} when nothing matches.
get_vendor_by_name(vendor_name) ==
    LET rows == {v \in vendors : ILike(v.vendor_name, vendor_name)}
    IN  IF rows = {} THEN {None} ELSE {Some(v) : v \in rows}

RECURSIVE SumPrices(_)
SumPrices(rows) ==
    IF rows = {} THEN 0
    ELSE LET r == CHOOSE x \in rows : TRUE
         IN  r.unit_price + SumPrices(rows \ {r})

\* A variant of get_historical_avg_price: records of any date are averaged
get_historical_avg_price_all_time(item_description, months) ==
    LET rows == {e \in past_expenditures :
                    ILike(e.item_description, item_description)}
    IN  [avg_price |-> IF rows = {} THEN None
                       ELSE Some(SumPrices(rows) \div Cardinality(rows)),
         transaction_count |-> Cardinality(rows)]

\* SELECT AVG(unit_price), COUNT(*) ... WHERE item_description ILIKE '%desc%'
\* AND transaction_date >= CURRENT_DATE - INTERVAL 'months months'.
\* AVG over no row is NULL.  (The seeded averages are whole numbers.)
get_historical_avg_price(item_description, months) ==
    LET rows == {e \in past_expenditures :
                    /\ ILike(e.item_description, item_description)
                    /\ DateGE(e.transaction_date, MonthsBefore(CurrentDate, months))}
    IN  [avg_price |-> IF rows = {} THEN None
                       ELSE Some(SumPrices(rows) \div Cardinality(rows)),
         transaction_count |-> Cardinality(rows)]

\* SELECT * FROM past_expenditures WHERE reference_number = %s; fetchone()
check_duplicate_reference(reference_number) ==
    LET rows == {e \in past_expenditures : e.reference_number = reference_number}
    IN  IF rows = {} THEN None ELSE Some(CHOOSE e \in rows : TRUE)

\* INSERT INTO flags (...): the row save_flag adds
FlagRow(thread_id, vendor_id, reference_number, anomaly, fraud_risk_score) ==
    [thread_id |-> thread_id, vendor_id |-> vendor_id,
     reference_number |-> reference_number, flag_type |-> anomaly.flag_type,
     severity |-> anomaly.severity, fraud_risk_score |-> fraud_risk_score]

----------------------------------------------------------------------------
(* Extracted documents (DocumentData) the extractor can return *)

Item(desc, price) == [item |-> desc, unit_price |-> price]

Pen == <<"p", "e", "n">>
Desk == <<"d", "e", "s", "k">>

\* Line items of the documents run through the whole graph.
\* (No expenditure record matches the description "zz".)
PipelineItems == {Item(Pen, 49), Item(Desk, 500), Item(<<"z", "z">>, 61)}

\* (vendor_id, vendor_name) pairs of the documents run through the whole graph.
PipelineVendorRefs ==
    { <<"", <<>>>>, <<"VND999", <<"z", "z">>>>, <<"VND001", <<"z", "z">>>>,
      <<"", <<"a", "b">>>>, <<"VND999", <<"C", "D">>>>, <<"VND004", <<"a", "b">>>>,
      <<"", <<"d", "d">>>> }

PipelineAmounts == {50000, 50001}

References == {"", "INV-2023-001", "INV-NEW"}

Doc(vref, amount, ref, items) ==
    [vendor_id |-> vref[1], vendor_name |-> vref[2], amount |-> amount,
     reference_number |-> ref, line_items |-> items]

PipelineDocs ==
    { Doc(vref, amount, ref, items) :
        vref \in PipelineVendorRefs, amount \in PipelineAmounts,
        ref \in References, items \in SeqsUpTo(PipelineItems, MaxItems) }

----------------------------------------------------------------------------
(* verifier_node: the verification result for a document and the vendor row
   the two lookups ended with *)

\* A variant of ResolveVendor: the lookup by name is made first
ResolveVendorByNameFirst(extracted_data) ==
    LET by_name == IF extracted_data.vendor_name # <<>>
                   THEN get_vendor_by_name(extracted_data.vendor_name) ELSE {None}
    IN  IF by_name # {None} THEN by_name
        ELSE IF extracted_data.vendor_id # ""
             THEN {get_vendor_by_id(extracted_data.vendor_id)}
             ELSE {None}

\* The rows lines 254-258 can end with: the row found by identifier when there
\* is one, else any row found by name, else None.
ResolveVendor(extracted_data) ==
    LET by_id == IF extracted_data.vendor_id # ""
                 THEN get_vendor_by_id(extracted_data.vendor_id) ELSE None
    IN  IF IsSome(by_id) THEN {by_id}
        ELSE IF extracted_data.vendor_name # <<>>
             THEN get_vendor_by_name(extracted_data.vendor_name)
             ELSE {None}

\* Lines 264-273: the average for the description of the FIRST line item.
HistoricalAvgPrice(extracted_data) ==
    IF extracted_data.line_items # <<>>
    THEN LET item_desc == extracted_data.line_items[1].item
         IN  IF item_desc # <<>>
             THEN LET price_data == get_historical_avg_price(item_desc, 24)
                  IN  IF IsSome(price_data.avg_price) /\ Val(price_data.avg_price) # 0
                      THEN price_data.avg_price ELSE None
             ELSE None
    ELSE None

VerificationResult(extracted_data, vendor) ==
    [vendor_exists |-> IsSome(vendor),
     vendor_registration_date |->
         IF IsSome(vendor) THEN Some(Val(vendor).registration_date) ELSE None,
     historical_avg_price |-> HistoricalAvgPrice(extracted_data),
     vendor_risk_score |-> IF IsSome(vendor) THEN Val(vendor).risk_score ELSE 0]

----------------------------------------------------------------------------
(* anomaly_detector_node: the four rules *)

\* A variant of GhostVendorRule: an amount of exactly 50,000 counts as large
GhostVendorRuleFromAmount(extracted_data, verification_result) ==
    IF ~verification_result.vendor_exists
    THEN << [flag_type |-> "ghost_vendor", severity |-> "critical",
             evidence |-> [vendor_name |-> extracted_data.vendor_name,
                           vendor_id |-> extracted_data.vendor_id,
                           amount |-> extracted_data.amount]] >>
    ELSE IF IsSome(verification_result.vendor_registration_date)
         THEN LET reg_date == Val(verification_result.vendor_registration_date)
              IN  IF Today - reg_date < 180 /\ extracted_data.amount >= 50000
                  THEN << [flag_type |-> "ghost_vendor", severity |-> "high",
                           evidence |-> [registration_date |-> reg_date,
                                         contract_amount |-> extracted_data.amount,
                                         days_since_registration |-> Today - reg_date]] >>
                  ELSE <<>>
         ELSE <<>>

\* Rule 1, lines 363-389
GhostVendorRule(extracted_data, verification_result) ==
    IF ~verification_result.vendor_exists
    THEN << [flag_type |-> "ghost_vendor", severity |-> "critical",
             evidence |-> [vendor_name |-> extracted_data.vendor_name,
                           vendor_id |-> extracted_data.vendor_id,
                           amount |-> extracted_data.amount]] >>
    ELSE IF IsSome(verification_result.vendor_registration_date)
         THEN LET reg_date == Val(verification_result.vendor_registration_date)
              IN  IF Today - reg_date < 180 /\ extracted_data.amount > 50000
                  THEN << [flag_type |-> "ghost_vendor", severity |-> "high",
                           evidence |-> [registration_date |-> reg_date,
                                         contract_amount |-> extracted_data.amount,
                                         days_since_registration |-> Today - reg_date]] >>
                  ELSE <<>>
         ELSE <<>>

\* inflation_pct = ((unit_price - historical_avg) / historical_avg) * 100, as
\* the fraction num / den (den > 0)
InflationPct(unit_price, historical_avg) ==
    [num |-> (unit_price - historical_avg) * 100, den |-> historical_avg]

PctGT(pct, k) == pct.num > k * pct.den

\* unit_price > historical_avg * 1.2
AboveThreshold(unit_price, historical_avg) == unit_price * 10 > historical_avg * 12

PctGE(pct, k) == pct.num >= k * pct.den

\* A variant of InflationSeverity: the bounds 50 and 30 inclusive
InflationSeverityInclusive(inflation_pct) ==
    IF PctGE(inflation_pct, 50) THEN "critical"
    ELSE IF PctGE(inflation_pct, 30) THEN "high"
    ELSE "medium"

\* A variant of InflationSeverity: high from the 20% threshold on
InflationSeverityHighFrom20(inflation_pct) ==
    IF PctGT(inflation_pct, 50) THEN "critical"
    ELSE IF PctGT(inflation_pct, 20) THEN "high"
    ELSE "medium"

InflationSeverity(inflation_pct) ==
    IF PctGT(inflation_pct, 50) THEN "critical"
    ELSE IF PctGT(inflation_pct, 30) THEN "high"
    ELSE "medium"

\* Rule 2, lines 391-412: every line item against the one historical average
RECURSIVE PriceInflationFlags(_, _)
PriceInflationFlags(line_items, historical_avg) ==
    IF line_items = <<>> THEN <<>>
    ELSE LET item == Head(line_items)
             inflation_pct == InflationPct(item.unit_price, historical_avg)
             here == IF AboveThreshold(item.unit_price, historical_avg)
                     THEN << [flag_type |-> "price_inflation",
                              severity |-> InflationSeverity(inflation_pct),
                              evidence |-> [item |-> item.item,
                                            current_price |-> item.unit_price,
                                            historical_avg_price |-> historical_avg,
                                            inflation_percentage |-> inflation_pct]] >>
                     ELSE <<>>
         IN  here \o PriceInflationFlags(Tail(line_items), historical_avg)

PriceInflationRule(extracted_data, verification_result) ==
    IF /\ IsSome(verification_result.historical_avg_price)
       /\ Val(verification_result.historical_avg_price) # 0
       /\ extracted_data.line_items # <<>>
    THEN PriceInflationFlags(extracted_data.line_items,
                             Val(verification_result.historical_avg_price))
    ELSE <<>>

\* Rule 3, lines 414-428
DuplicateInvoiceRule(extracted_data) ==
    IF extracted_data.reference_number # ""
    THEN LET duplicate == check_duplicate_reference(extracted_data.reference_number)
         IN  IF IsSome(duplicate)
             THEN << [flag_type |-> "duplicate_invoice", severity |-> "critical",
                      evidence |-> [reference_number |-> extracted_data.reference_number,
                                    original_date |-> Val(duplicate).transaction_date,
                                    original_amount |-> Val(duplicate).amount]] >>
             ELSE <<>>
    ELSE <<>>

\* A variant of HighRiskVendorRule: a risk score of 0.7 flagged as well
HighRiskVendorRuleFromThreshold(extracted_data, verification_result) ==
    IF verification_result.vendor_risk_score >= 7
    THEN << [flag_type |-> "high_risk_vendor", severity |-> "high",
             evidence |-> [vendor_name |-> extracted_data.vendor_name,
                           risk_score |-> verification_result.vendor_risk_score]] >>
    ELSE <<>>

\* Rule 4, lines 430-440
HighRiskVendorRule(extracted_data, verification_result) ==
    IF verification_result.vendor_risk_score > 7
    THEN << [flag_type |-> "high_risk_vendor", severity |-> "high",
             evidence |-> [vendor_name |-> extracted_data.vendor_name,
                           risk_score |-> verification_result.vendor_risk_score]] >>
    ELSE <<>>

\* A variant of DetectAnomalies: an unknown vendor ends the rules
DetectAnomaliesGhostFirst(extracted_data, verification_result) ==
    IF ~verification_result.vendor_exists
    THEN GhostVendorRule(extracted_data, verification_result)
    ELSE PriceInflationRule(extracted_data, verification_result)
            \o DuplicateInvoiceRule(extracted_data)
            \o HighRiskVendorRule(extracted_data, verification_result)

\* A variant of DetectAnomalies: the rules stop at the first one that fires
DetectAnomaliesFirstRuleOnly(extracted_data, verification_result) ==
    LET ghost == GhostVendorRule(extracted_data, verification_result)
        price == PriceInflationRule(extracted_data, verification_result)
        duplicate == DuplicateInvoiceRule(extracted_data)
    IN  IF ghost # <<>> THEN ghost
        ELSE IF price # <<>> THEN price
        ELSE IF duplicate # <<>> THEN duplicate
        ELSE HighRiskVendorRule(extracted_data, verification_result)

\* The local list anomalies of anomaly_detector_node at its return
DetectAnomalies(extracted_data, verification_result) ==
    GhostVendorRule(extracted_data, verification_result)
        \o PriceInflationRule(extracted_data, verification_result)
        \o DuplicateInvoiceRule(extracted_data)
        \o HighRiskVendorRule(extracted_data, verification_result)

----------------------------------------------------------------------------
(* reporter_node: the score and the risk level *)

SeverityWeight(severity) ==
    CASE severity = "critical" -> Points(40)
      [] severity = "high" -> Points(25)
      [] severity = "medium" -> Points(15)
      [] severity = "low" -> Points(5)
      [] OTHER -> 0

\* Lines 496-507
BaseScore(anomalies) ==
    SumSeq([i \in 1..Len(anomalies) |-> SeverityWeight(anomalies[i].severity)])

\* A variant of ApplyVendorRisk: the multiplier at a risk of 0.7 as well
ApplyVendorRiskFromThreshold(base_score, vendor_risk) ==
    IF vendor_risk >= 7 THEN (base_score * 15) \div 10 ELSE base_score

\* Lines 510-512: base_score *= 1.5 when vendor_risk > 0.7
ApplyVendorRisk(base_score, vendor_risk) ==
    IF vendor_risk > 7 THEN (base_score * 15) \div 10 ELSE base_score

\* Line 510
VendorRiskOf(verification_result) ==
    IF IsSome(verification_result) THEN Val(verification_result).vendor_risk_score ELSE 0

\* A variant of ClampScore: no upper clamp
ClampScoreUnbounded(base_score) == base_score

\* Line 514: min(base_score, 100.0)
ClampScore(base_score) == IF base_score < Points(100) THEN base_score ELSE Points(100)

\* A variant of RiskLevelInline: exclusive lower bounds
RiskLevelInlineExclusive(fraud_risk_score) ==
    IF fraud_risk_score > Points(70) THEN <<"red", "CRITICAL">>
    ELSE IF fraud_risk_score > Points(40) THEN <<"orange", "HIGH">>
    ELSE IF fraud_risk_score > Points(20) THEN <<"yellow", "MEDIUM">>
    ELSE <<"green", "LOW">>

\* Line 539: the marker and the label of the report's risk level
RiskLevelInline(fraud_risk_score) ==
    IF fraud_risk_score >= Points(70) THEN <<"red", "CRITICAL">>
    ELSE IF fraud_risk_score >= Points(40) THEN <<"orange", "HIGH">>
    ELSE IF fraud_risk_score >= Points(20) THEN <<"yellow", "MEDIUM">>
    ELSE <<"green", "LOW">>

\* app/live.py
calculate_risk_level(fraud_score) ==
    IF fraud_score >= Points(70) THEN "CRITICAL"
    ELSE IF fraud_score >= Points(40) THEN "HIGH"
    ELSE IF fraud_score >= Points(20) THEN "MEDIUM"
    ELSE "LOW"

\* A variant of ReportRenders: the report template formats without error
ReportRendersAlways(extracted_data, verification_result) ==
    /\ IsSome(extracted_data)
    /\ IsSome(verification_result)

\* Lines 541-579: whether the report template renders.  It reads fields of
\* extracted_data and verification_result (an AttributeError on None), and it
\* formats historical_avg_price with the format specification
\* ".2f if verification_result.get('historical_avg_price') else 'N/A'", which
\* no float accepts (ValueError) and None does not support (TypeError).
ReportRenders(extracted_data, verification_result) ==
    /\ IsSome(extracted_data)
    /\ IsSome(verification_result)
    /\ FALSE

----------------------------------------------------------------------------
(* The audit state and the graph's channels *)

\* initial_state of analyze_document
InitialState(thread_id) ==
    [thread_id |-> thread_id,
     extracted_data |-> None,
     verification_result |-> None,
     anomalies |-> <<>>,
     fraud_risk_score |-> 0,
     final_report |-> "",
     recommendations |-> <<>>,
     current_node |-> "",
     errors |-> <<>>]

\* A variant of ApplyUpdate: every channel takes the returned value
ApplyUpdateLastValue(state, update) ==
    update

\* A node returns a whole AuditState; the graph writes it to the channels.
\* anomalies and errors are Annotated[List, add]: the returned list is added
\* to the channel's list.  Every other channel takes the returned value.
ApplyUpdate(state, update) ==
    [update EXCEPT !.anomalies = state.anomalies \o update.anomalies,
                   !.errors = state.errors \o update.errors]

\* A variant of Failure: the except branch does not set current_node
FailureKeepsNode(state, msg, node) ==
    [state EXCEPT !.errors = <<msg>>]

\* The except branch of a node: {**state, "errors": [msg], "current_node": node}
Failure(state, msg, node) ==
    [state EXCEPT !.errors = <<msg>>, !.current_node = node]

\* What extractor_node can return: the parsed JSON of the model's answer (a
\* document, or a null / empty answer, which is falsy), or the except branch.
extractor_node(state, docs) ==
    {[state EXCEPT !.extracted_data = Some(d), !.current_node = "extractor"] : d \in docs}
    \cup {[state EXCEPT !.extracted_data = None, !.current_node = "extractor"]}
    \cup {Failure(state, "Extraction error", "extractor")}

\* What verifier_node can return.  A ledger query or the reasoning call can
\* raise whatever the data is.
verifier_node(state) ==
    IF ~IsSome(state.extracted_data)
    THEN {Failure(state, "Verification error", "verifier")}
    ELSE {[state EXCEPT
              !.verification_result =
                  Some(VerificationResult(Val(state.extracted_data), vendor)),
              !.current_node = "verifier"] :
            vendor \in ResolveVendor(Val(state.extracted_data))}
         \cup {Failure(state, "Verification error", "verifier")}

\* A variant of anomaly_detector_node: without a document or a verification
\* result there is nothing to check, and the stage returns no flag
anomaly_detector_node_lenient(state) ==
    IF ~IsSome(state.extracted_data) \/ ~IsSome(state.verification_result)
    THEN {[state EXCEPT !.anomalies = <<>>, !.current_node = "anomaly_detector"]}
    ELSE {[state EXCEPT
              !.anomalies = DetectAnomalies(Val(state.extracted_data),
                                            Val(state.verification_result)),
              !.current_node = "anomaly_detector"],
          Failure(state, "Anomaly detection error", "anomaly_detector")}

\* What anomaly_detector_node can return.
anomaly_detector_node(state) ==
    IF ~IsSome(state.extracted_data) \/ ~IsSome(state.verification_result)
    THEN {Failure(state, "Anomaly detection error", "anomaly_detector")}
    ELSE {[state EXCEPT
              !.anomalies = DetectAnomalies(Val(state.extracted_data),
                                            Val(state.verification_result)),
              !.current_node = "anomaly_detector"],
          Failure(state, "Anomaly detection error", "anomaly_detector")}

\* The rows the save loop of lines 628-638 has committed after k calls
SavedRows(state, fraud_risk_score, k) ==
    [i \in 1..k |->
        FlagRow(state.thread_id,
                Val(state.extracted_data).vendor_id,
                Val(state.extracted_data).reference_number,
                state.anomalies[i], fraud_risk_score)]

\* What reporter_node can do: ret is the returned state, saved the rows it
\* committed to the flags table, locals its local variables when it returns
\* (base_score after line 512; risk_level is None when the recommendations
\* call of line 534 raised before line 539).
reporter_node(state) ==
    LET anomalies == state.anomalies
        vendor_risk == VendorRiskOf(state.verification_result)
        base_score == ApplyVendorRisk(BaseScore(anomalies), vendor_risk)
        fraud_risk_score == ClampScore(base_score)
        early == [anomalies |-> anomalies, base_score |-> base_score,
                  vendor_risk |-> vendor_risk,
                  fraud_risk_score |-> fraud_risk_score, risk_level |-> None]
        late == [early EXCEPT !.risk_level = Some(RiskLevelInline(fraud_risk_score))]
        failed == Failure(state, "Report generation error", "reporter")
    IN  {[ret |-> failed, saved |-> <<>>, locals |-> early]}
        \cup
        IF ReportRenders(state.extracted_data, state.verification_result)
        THEN {[ret |-> failed, saved |-> SavedRows(state, fraud_risk_score, k),
               locals |-> late] : k \in 0..(Len(anomalies) - 1)}
             \cup
             {[ret |-> [state EXCEPT !.fraud_risk_score = fraud_risk_score,
                                     !.final_report = "report",
                                     !.recommendations = <<"recommendation">>,
                                     !.current_node = "reporter"],
               saved |-> SavedRows(state, fraud_risk_score, Len(anomalies)),
               locals |-> late]}
        ELSE {[ret |-> failed, saved |-> <<>>, locals |-> late]}

----------------------------------------------------------------------------
(* The graph: extractor -> verifier -> anomaly_detector -> reporter -> END *)

\* The nodes in the order of the edges
Stages == <<"extractor", "verifier", "anomaly_detector", "reporter">>

NoProbe == [score |-> 0, inline |-> None, live |-> None]

\* The extractor node on a document out of docs
Extract(t, docs) ==
    /\ pc[t] = "extractor"
    /\ \E ret \in extractor_node(audit[t], docs) :
          audit' = [audit EXCEPT ![t] = ApplyUpdate(audit[t], ret)]
    /\ pc' = [pc EXCEPT ![t] = "verifier"]
    /\ executed' = [executed EXCEPT ![t] = Append(@, "extractor")]
    /\ UNCHANGED <<vendors, past_expenditures, flags, reporter_locals, probe, analyses_cache>>

Extractor(t) == Extract(t, PipelineDocs)

\* A variant of Verifier: a verification that failed is attempted again
VerifierRetrying(t) ==
    /\ pc[t] = "verifier"
    /\ \E ret \in verifier_node(audit[t]) :
          /\ audit' = [audit EXCEPT ![t] = ApplyUpdate(audit[t], ret)]
          /\ pc' = [pc EXCEPT ![t] = IF IsSome(ret.verification_result)
                                     THEN "anomaly_detector" ELSE "verifier"]
    /\ executed' = [executed EXCEPT ![t] = Append(@, "verifier")]
    /\ UNCHANGED <<vendors, past_expenditures, flags, reporter_locals, probe, analyses_cache>>

\* A variant of Verifier: the verification result is kept in one place that
\* every running analysis reads
VerifierSharedResult(t) ==
    /\ pc[t] = "verifier"
    /\ \E ret \in verifier_node(audit[t]) :
          audit' = [u \in DOMAIN audit |->
                      IF u = t THEN ApplyUpdate(audit[t], ret)
                      ELSE [audit[u] EXCEPT !.verification_result = ret.verification_result]]
    /\ pc' = [pc EXCEPT ![t] = "anomaly_detector"]
    /\ executed' = [executed EXCEPT ![t] = Append(@, "verifier")]
    /\ UNCHANGED <<vendors, past_expenditures, flags, reporter_locals, probe, analyses_cache>>

Verifier(t) ==
    /\ pc[t] = "verifier"
    /\ \E ret \in verifier_node(audit[t]) :
          audit' = [audit EXCEPT ![t] = ApplyUpdate(audit[t], ret)]
    /\ pc' = [pc EXCEPT ![t] = "anomaly_detector"]
    /\ executed' = [executed EXCEPT ![t] = Append(@, "verifier")]
    /\ UNCHANGED <<vendors, past_expenditures, flags, reporter_locals, probe, analyses_cache>>

\* A variant of AnomalyDetector: the stage enters the document it has checked
\* into the expenditure records
AnomalyDetectorRecording(t) ==
    /\ pc[t] = "anomaly_detector"
    /\ \E ret \in anomaly_detector_node(audit[t]) :
          audit' = [audit EXCEPT ![t] = ApplyUpdate(audit[t], ret)]
    /\ past_expenditures' =
          IF IsSome(audit[t].extracted_data)
          THEN past_expenditures \cup
                  { [reference_number |-> Val(audit[t].extracted_data).reference_number,
                     vendor_id |-> Val(audit[t].extracted_data).vendor_id,
                     transaction_date |-> CurrentDate,
                     amount |-> Val(audit[t].extracted_data).amount,
                     item_description |-> <<>>, unit_price |-> 0] }
          ELSE past_expenditures
    /\ pc' = [pc EXCEPT ![t] = "reporter"]
    /\ executed' = [executed EXCEPT ![t] = Append(@, "anomaly_detector")]
    /\ UNCHANGED <<vendors, flags, reporter_locals, probe, analyses_cache>>

AnomalyDetector(t) ==
    /\ pc[t] = "anomaly_detector"
    /\ \E ret \in anomaly_detector_node(audit[t]) :
          audit' = [audit EXCEPT ![t] = ApplyUpdate(audit[t], ret)]
    /\ pc' = [pc EXCEPT ![t] = "reporter"]
    /\ executed' = [executed EXCEPT ![t] = Append(@, "anomaly_detector")]
    /\ UNCHANGED <<vendors, past_expenditures, flags, reporter_locals, probe, analyses_cache>>

Reporter(t) ==
    /\ pc[t] = "reporter"
    /\ \E out \in reporter_node(audit[t]) :
          /\ audit' = [audit EXCEPT ![t] = ApplyUpdate(audit[t], out.ret)]
          /\ flags' = flags \o out.saved
          /\ reporter_locals' = [reporter_locals EXCEPT ![t] = Some(out.locals)]
    /\ pc' = [pc EXCEPT ![t] = "END"]
    /\ executed' = [executed EXCEPT ![t] = Append(@, "reporter")]
    /\ UNCHANGED <<vendors, past_expenditures, probe, analyses_cache>>

\* analyze_document: a new thread id, the initial state, the graph started
Init ==
    /\ vendors = SeedVendors
    /\ past_expenditures = SeedExpenditures
    /\ flags = <<>>
    /\ audit = [t \in Threads |-> InitialState(t)]
    /\ pc = [t \in Threads |-> "extractor"]
    /\ reporter_locals = [t \in Threads |-> None]
    /\ executed = [t \in Threads |-> <<>>]
    /\ probe = NoProbe
    /\ analyses_cache = <<>>

Next ==
    \E t \in Threads :
        \/ Extractor(t)
        \/ Verifier(t)
        \/ AnomalyDetector(t)
        \/ Reporter(t)

Spec == Init /\ [][Next]_vars

\* The stages of a started run are scheduled until the graph reaches END.
FairSpec == Spec /\ WF_vars(Next)

----------------------------------------------------------------------------
(* The graph invoked again with a thread id that has a checkpoint, as a second
   run of test_fraud_detection does with "test-thread-001" *)

\* Documents the extractor can read from the sample invoice: one of a vendor
\* that is not in the ledger, one that triggers no rule.
SampleDocs ==
    { Doc(<<"VND999", <<"z", "z">>>>, 50000, "", <<>>),
      Doc(<<"VND001", <<"z", "z">>>>, 50000, "INV-NEW", <<>>) }

ExtractSample(t) == Extract(t, SampleDocs)

\* graph.astream(initial_state, config) on a thread whose run has ended: the
\* input is written to the channels of the thread's checkpoint (added to
\* anomalies and errors, the value of every other channel) and the graph
\* starts at its entry point.
Reinvoke(t) ==
    /\ pc[t] = "END"
    /\ Len(executed[t]) < Len(Stages) * MaxRuns
    /\ audit' = [audit EXCEPT ![t] = ApplyUpdate(audit[t], InitialState(t))]
    /\ pc' = [pc EXCEPT ![t] = "extractor"]
    /\ UNCHANGED <<vendors, past_expenditures, flags, reporter_locals, executed, probe, analyses_cache>>

NextReinvoke ==
    \E t \in Threads :
        \/ ExtractSample(t)
        \/ Verifier(t)
        \/ AnomalyDetector(t)
        \/ Reporter(t)
        \/ Reinvoke(t)

SpecReinvoke == Init /\ [][NextReinvoke]_vars

----------------------------------------------------------------------------
(* Two uploads analysed at the same time, each under its own thread id; the
   steps of the two graphs interleave in any order, one after the other
   included *)

Uploads == {"t1", "t2"}

\* Documents of the two uploads: one whose reference number is in the
\* expenditure records, one whose reference number is new.
UploadDocs ==
    { Doc(<<"VND001", <<"z", "z">>>>, 50000, "INV-2023-001", <<>>),
      Doc(<<"VND001", <<"z", "z">>>>, 50000, "INV-NEW", <<>>) }

ExtractUpload(t) == Extract(t, UploadDocs)

InitConcurrent ==
    /\ vendors = SeedVendors
    /\ past_expenditures = SeedExpenditures
    /\ flags = <<>>
    /\ audit = [t \in Uploads |-> InitialState(t)]
    /\ pc = [t \in Uploads |-> "extractor"]
    /\ reporter_locals = [t \in Uploads |-> None]
    /\ executed = [t \in Uploads |-> <<>>]
    /\ probe = NoProbe
    /\ analyses_cache = <<>>

NextConcurrent ==
    \E t \in Uploads :
        \/ ExtractUpload(t)
        \/ Verifier(t)
        \/ AnomalyDetector(t)
        \/ Reporter(t)

SpecConcurrent == InitConcurrent /\ [][NextConcurrent]_vars

----------------------------------------------------------------------------
(* Audit retrieval: GET /audit/{thread_id} (app/main.py) *)

\* A variant of get_audit: recorded errors decide the status first
get_audit_errors_first(thread_id) ==
    LET state_values == audit[thread_id]
        current_node == state_values.current_node
    IN  [thread_id |-> thread_id,
         status |-> IF state_values.errors # <<>> THEN "failed"
                    ELSE IF current_node = "reporter" THEN "completed"
                    ELSE "processing",
         current_node |-> current_node,
         fraud_risk_score |-> state_values.fraud_risk_score,
         anomalies |-> state_values.anomalies,
         errors |-> state_values.errors]

\* The response built from the latest checkpoint of the thread
get_audit(thread_id) ==
    LET state_values == audit[thread_id]
        current_node == state_values.current_node
    IN  [thread_id |-> thread_id,
         status |-> IF current_node = "reporter" THEN "completed"
                    ELSE IF state_values.errors # <<>> THEN "failed"
                    ELSE "processing",
         current_node |-> current_node,
         fraud_risk_score |-> state_values.fraud_risk_score,
         anomalies |-> state_values.anomalies,
         errors |-> state_values.errors]

----------------------------------------------------------------------------
(* A node called directly on a prepared state, as test_price_inflation_scenario
   calls verifier_node and anomaly_detector_node on its mock_state *)

Severities == {"critical", "high", "medium", "low"}

AnyFlag(severity) ==
    [flag_type |-> "any", severity |-> severity, evidence |-> <<>>]

\* Verification results of every shape the verifier's fields allow
AnyVerificationResults ==
    { [vendor_exists |-> ex[1], vendor_registration_date |-> ex[2],
       historical_avg_price |-> avg, vendor_risk_score |-> risk] :
        ex \in {<<FALSE, None>>, <<TRUE, Some(Today - 179)>>, <<TRUE, Some(Today - 180)>>},
        avg \in {None, Some(40)},
        risk \in {0, 7, 8} }

DetectorItems == {Item(Pen, price) : price \in {48, 49, 50, 52, 53, 60, 61}}

DetectorDocs ==
    { Doc(<<"VND001", <<"A", "b">>>>, amount, ref, items) :
        amount \in PipelineAmounts, ref \in References,
        items \in SeqsUpTo(DetectorItems, MaxItems) }

MockDoc == Doc(<<"VND001", <<"A", "b">>>>, 50000, "INV-NEW", <<Item(Pen, 50)>>)

\* reporter_node on a state with any list of anomalies and any vendor risk
InitReporter ==
    /\ vendors = SeedVendors
    /\ past_expenditures = SeedExpenditures
    /\ flags = <<>>
    /\ \E sevs \in SeqsUpTo(Severities, MaxFlags) :
       \E vr \in {None} \cup {Some(v) : v \in AnyVerificationResults} :
          audit = [t \in Threads |->
                      [InitialState(t) EXCEPT
                          !.extracted_data = Some(MockDoc),
                          !.verification_result = vr,
                          !.anomalies = [i \in 1..Len(sevs) |-> AnyFlag(sevs[i])],
                          !.current_node = "anomaly_detector"]]
    /\ pc = [t \in Threads |-> "reporter"]
    /\ reporter_locals = [t \in Threads |-> None]
    /\ executed = [t \in Threads |-> <<>>]
    /\ probe = NoProbe
    /\ analyses_cache = <<>>

NextReporter == \E t \in Threads : Reporter(t)

SpecReporter == InitReporter /\ [][NextReporter]_vars

\* anomaly_detector_node, then reporter_node, on a state with any extracted
\* document and any verification result
InitDetector ==
    /\ vendors = SeedVendors
    /\ past_expenditures = SeedExpenditures
    /\ flags = <<>>
    /\ \E d \in DetectorDocs : \E vr \in AnyVerificationResults :
          audit = [t \in Threads |->
                      [InitialState(t) EXCEPT
                          !.extracted_data = Some(d),
                          !.verification_result = Some(vr),
                          !.current_node = "verifier"]]
    /\ pc = [t \in Threads |-> "anomaly_detector"]
    /\ reporter_locals = [t \in Threads |-> None]
    /\ executed = [t \in Threads |-> <<>>]
    /\ probe = NoProbe
    /\ analyses_cache = <<>>

NextDetector == \E t \in Threads : AnomalyDetector(t) \/ Reporter(t)

SpecDetector == InitDetector /\ [][NextDetector]_vars

----------------------------------------------------------------------------
(* verifier_node, then anomaly_detector_node and reporter_node, called on a
   state that holds any extracted document *)

Ink == <<"i", "n", "k">>
Gift == <<"g", "i", "f", "t">>

\* Line items: described by records inside the window (pen, desk), by a record
\* outside it only (ink), by a record of unit price 0 (gift), by no record (zz).
VerifierItems ==
    {Item(Pen, 49), Item(Desk, 700), Item(Ink, 61), Item(Gift, 5),
     Item(<<"z", "z">>, 61)}

\* (vendor_id, vendor_name) pairs: the pipeline's, an identifier in another
\* case, and identifiers without a name.
VerifierVendorRefs ==
    PipelineVendorRefs
        \cup { <<"vnd001", <<"z", "z">>>>, <<"VND002", <<>>>>, <<"VND999", <<>>>> }

VerifierDocs ==
    { Doc(vref, 50001, "INV-NEW", items) :
        vref \in VerifierVendorRefs, items \in SeqsUpTo(VerifierItems, MaxItems) }

InitVerifier ==
    /\ vendors = SeedVendors
    /\ past_expenditures = SeedExpenditures
    /\ flags = <<>>
    /\ \E d \in VerifierDocs :
          audit = [t \in Threads |->
                      [InitialState(t) EXCEPT
                          !.extracted_data = Some(d),
                          !.current_node = "extractor"]]
    /\ pc = [t \in Threads |-> "verifier"]
    /\ reporter_locals = [t \in Threads |-> None]
    /\ executed = [t \in Threads |-> <<>>]
    /\ probe = NoProbe
    /\ analyses_cache = <<>>

NextVerifier == \E t \in Threads : Verifier(t) \/ AnomalyDetector(t) \/ Reporter(t)

SpecVerifier == InitVerifier /\ [][NextVerifier]_vars

----------------------------------------------------------------------------
(* The two risk-level functions on one score *)

EvalRiskLevel ==
    /\ probe.inline = None
    /\ probe' = [probe EXCEPT !.inline = Some(RiskLevelInline(probe.score)),
                              !.live = Some(calculate_risk_level(probe.score))]
    /\ UNCHANGED <<vendors, past_expenditures, flags, audit, pc, reporter_locals, executed,
                   analyses_cache>>

InitLevel ==
    /\ vendors = SeedVendors
    /\ past_expenditures = SeedExpenditures
    /\ flags = <<>>
    /\ audit = [t \in Threads |-> InitialState(t)]
    /\ pc = [t \in Threads |-> "END"]
    /\ reporter_locals = [t \in Threads |-> None]
    /\ executed = [t \in Threads |-> <<>>]
    /\ \E s \in 0..Points(100) : probe = [NoProbe EXCEPT !.score = s]
    /\ analyses_cache = <<>>

NextLevel == EvalRiskLevel

SpecLevel == InitLevel /\ [][NextLevel]_vars

----------------------------------------------------------------------------
(* app/live.py: AnalysisCache.  self.cache is a dict: iteration follows the
   order in which the keys were first inserted, and assigning to a key that
   is present keeps its place. *)

CacheKeys(cache) == {cache[i].thread_id : i \in 1..Len(cache)}

\* del self.cache[key]
CacheDel(cache, key) == SelectSeq(cache, LAMBDA entry : entry.thread_id # key)

\* self.cache[thread_id] = data
CachePut(cache, thread_id, data) ==
    IF thread_id \in CacheKeys(cache)
    THEN [i \in 1..Len(cache) |->
            IF cache[i].thread_id = thread_id
            THEN [thread_id |-> thread_id, data |-> data] ELSE cache[i]]
    ELSE Append(cache, [thread_id |-> thread_id, data |-> data])

\* A variant of add: a full cache drops its newest entry
add_dropping_newest(cache, thread_id, data) ==
    IF Len(cache) >= max_size
    THEN CachePut(CacheDel(cache, cache[Len(cache)].thread_id), thread_id, data)
    ELSE CachePut(cache, thread_id, data)

\* AnalysisCache.add: the cache after the call (max_size is at least 1)
add(cache, thread_id, data) ==
    IF Len(cache) >= max_size
    THEN LET oldest == cache[1].thread_id
         IN  CachePut(CacheDel(cache, oldest), thread_id, data)
    ELSE CachePut(cache, thread_id, data)

\* AnalysisCache.get: self.cache.get(thread_id)
get(cache, thread_id) ==
    IF thread_id \in CacheKeys(cache)
    THEN Some(cache[CHOOSE i \in 1..Len(cache) : cache[i].thread_id = thread_id].data)
    ELSE None

\* Python's  items[start:]  for any integer start
SliceFrom(items, start) ==
    LET from == IF start < 0
                THEN (IF Len(items) + start < 0 THEN 0 ELSE Len(items) + start)
                ELSE (IF start > Len(items) THEN Len(items) ELSE start)
    IN  SubSeq(items, from + 1, Len(items))

\* AnalysisCache.list_recent: list(self.cache.items())[-limit:]
list_recent(cache, limit) == SliceFrom(cache, 0 - limit)

----------------------------------------------------------------------------
(* app/live.py: the analysis of an uploaded image *)

\* A document as the live extraction prompt describes it (vendor_id and
\* invoice_number "" when the answer gives null)
LiveDoc(vendor_id, invoice_number, total_amount) ==
    [vendor_name |-> <<"z", "z">>, vendor_id |-> vendor_id,
     invoice_number |-> invoice_number, total_amount |-> total_amount]

LiveDocs ==
    { LiveDoc(vendor_id, invoice_number, total_amount) :
        vendor_id \in {"", "VND001"}, invoice_number \in {"", "INV-NEW"},
        total_amount \in {25000, 25001} }

\* What the model's answer to the extraction prompt can be: text holding a
\* JSON object (the document), text with braces that is not JSON, text
\* without an object, or no answer (the call or the analysis raises); "mock"
\* is an upload that is not sent to the model (AI disabled, or a PDF).
LiveResponses ==
    { [kind |-> "json", doc |-> Some(d)] : d \in LiveDocs }
        \cup { [kind |-> k, doc |-> None] : k \in {"bad_json", "no_json", "raise", "mock"} }

create_fallback_data ==
    [vendor_name |-> <<"E", "x", "t", "r", "a", "c", "t", "e", "d">>, vendor_id |-> "",
     invoice_number |-> "EXT-001", total_amount |-> 10000]

LiveFlag(flag_type, severity) == [flag_type |-> flag_type, severity |-> severity]

\* detect_anomalies: the flags and the score
detect_anomalies(extracted_data) ==
    LET high_value == extracted_data.total_amount > 25000
        no_vendor == extracted_data.vendor_id = ""
        no_invoice == extracted_data.invoice_number = ""
    IN  [anomalies |->
            (IF high_value THEN <<LiveFlag("high_value", "MEDIUM")>> ELSE <<>>)
            \o (IF no_vendor THEN <<LiveFlag("missing_vendor_id", "HIGH")>> ELSE <<>>)
            \o (IF no_invoice THEN <<LiveFlag("missing_invoice_number", "HIGH")>> ELSE <<>>),
         fraud_score |->
            (IF high_value THEN Points(20) ELSE 0)
            + (IF no_vendor THEN Points(30) ELSE 0)
            + (IF no_invoice THEN Points(25) ELSE 0)]

process_with_mock_data(thread_id) ==
    [thread_id |-> thread_id, status |-> "completed",
     fraud_risk_score |-> Points(65), risk_level |-> "HIGH",
     anomalies |-> <<LiveFlag("ghost_vendor", "CRITICAL"),
                     LiveFlag("price_inflation", "HIGH")>>,
     extracted_data |-> LiveDoc("", "MOCK-001", 50000)]

\* process_image_with_ai: the result for an answer of the model
process_image_with_ai(response, thread_id) ==
    IF response.kind = "raise" THEN process_with_mock_data(thread_id)
    ELSE LET extracted_data == IF response.kind = "json" THEN Val(response.doc)
                               ELSE create_fallback_data
             found == detect_anomalies(extracted_data)
         IN  [thread_id |-> thread_id, status |-> "completed",
              fraud_risk_score |-> found.fraud_score,
              risk_level |-> calculate_risk_level(found.fraud_score),
              anomalies |-> found.anomalies,
              extracted_data |-> extracted_data]

LiveThreads == {"u1", "u2", "u3"}

\* POST /analyze of app/live.py: a new thread id (one the cache does not
\* hold), the upload processed, the result stored in the cache.  probe keeps
\* the answer the result came from.
analyze_document(thread_id) ==
    /\ thread_id \notin CacheKeys(analyses_cache)
    /\ \E response \in LiveResponses :
          LET result == IF response.kind = "mock"
                        THEN process_with_mock_data(thread_id)
                        ELSE process_image_with_ai(response, thread_id)
          IN  /\ analyses_cache' = add(analyses_cache, thread_id, result)
              /\ probe' = [call |-> "analyze_document", thread_id |-> thread_id,
                           response |-> response, result |-> result]
    /\ UNCHANGED <<vendors, past_expenditures, flags, audit, pc, reporter_locals, executed>>

InitLive ==
    /\ vendors = SeedVendors
    /\ past_expenditures = SeedExpenditures
    /\ flags = <<>>
    /\ audit = [t \in Threads |-> InitialState(t)]
    /\ pc = [t \in Threads |-> "END"]
    /\ reporter_locals = [t \in Threads |-> None]
    /\ executed = [t \in Threads |-> <<>>]
    /\ probe = [call |-> "none"]
    /\ analyses_cache = <<>>

NextLive == \E thread_id \in LiveThreads : analyze_document(thread_id)

SpecLive == InitLive /\ [][NextLive]_vars

----------------------------------------------------------------------------
(* The AnalysisCache called directly: any sequence of add, get and
   list_recent calls, as analyze_document, get_audit and list_audits of
   app/live.py make them *)

\* The results stored in the calls
CacheData == {"d1", "d2"}

\* analyses_cache.add(thread_id, data); probe keeps the call and the cache
\* before it
CallAdd(thread_id, data) ==
    /\ analyses_cache' = add(analyses_cache, thread_id, data)
    /\ probe' = [call |-> "add", thread_id |-> thread_id, data |-> data,
                 before |-> analyses_cache]
    /\ UNCHANGED <<vendors, past_expenditures, flags, audit, pc, reporter_locals, executed>>

\* analyses_cache.get(thread_id)
CallGet(thread_id) ==
    /\ probe' = [call |-> "get", thread_id |-> thread_id,
                 result |-> get(analyses_cache, thread_id),
                 before |-> analyses_cache]
    /\ UNCHANGED <<vendors, past_expenditures, flags, audit, pc, reporter_locals,
                   executed, analyses_cache>>

\* analyses_cache.list_recent(limit), limit the query parameter of GET /audits
CallListRecent(limit) ==
    /\ probe' = [call |-> "list_recent", limit |-> limit,
                 result |-> list_recent(analyses_cache, limit),
                 before |-> analyses_cache]
    /\ UNCHANGED <<vendors, past_expenditures, flags, audit, pc, reporter_locals,
                   executed, analyses_cache>>

NextCache ==
    \/ \E thread_id \in LiveThreads, data \in CacheData : CallAdd(thread_id, data)
    \/ \E thread_id \in LiveThreads : CallGet(thread_id)
    \/ \E limit \in 0..MaxLimit : CallListRecent(limit)

SpecCache == InitLive /\ [][NextCache]_vars

----------------------------------------------------------------------------
(* Properties *)

\* The number of flags of a severity in a list of anomaly flags
CountSeverity(anomalies, severity) ==
    Cardinality({i \in 1..Len(anomalies) : anomalies[i].severity = severity})

\* Twice the sum of the severity weights, in tenths of a point
TwiceWeightSum(anomalies) ==
    2 * (400 * CountSeverity(anomalies, "critical") + 250 * CountSeverity(anomalies, "high")
         + 150 * CountSeverity(anomalies, "medium") + 50 * CountSeverity(anomalies, "low"))

MinOf(a, b) == IF a < b THEN a ELSE b

\* C1: whatever the list of anomaly flags and the vendor risk score a state
\* handed to the reporter holds, the fraud_risk_score the reporter computes
\* lies in [0, 100], and so does the fraud_risk_score of the audit state.
C1_ScoreInRange ==
    \A t \in Threads :
        /\ audit[t].fraud_risk_score \in 0..Points(100)
        /\ IsSome(reporter_locals[t]) =>
              Val(reporter_locals[t]).fraud_risk_score \in 0..Points(100)

\* C1 witness: the reporter has run on flags whose weights sum to more than
\* 100 and has computed exactly 100.
C1_Witness ==
    \E t \in Threads :
        /\ IsSome(reporter_locals[t])
        /\ TwiceWeightSum(Val(reporter_locals[t]).anomalies) > 2 * Points(100)
        /\ Val(reporter_locals[t]).fraud_risk_score = Points(100)

\* C2: the reporter's score is min(B, 100), B being the sum of the severity
\* weights (critical 40, high 25, medium 15, low 5) of the anomalies it read,
\* times 1.5 exactly when vendor_risk_score > 0.7, the multiplication coming
\* before the clamp; one high anomaly with vendor risk 0.8 gives 37.5.
C2_ScoreFormula ==
    \A t \in Threads :
        IsSome(reporter_locals[t]) =>
            LET l == Val(reporter_locals[t])
                twiceB == IF l.vendor_risk > 7
                          THEN (3 * TwiceWeightSum(l.anomalies)) \div 2
                          ELSE TwiceWeightSum(l.anomalies)
            IN  /\ l.vendor_risk = VendorRiskOf(audit[t].verification_result)
                /\ 2 * l.fraud_risk_score = MinOf(twiceB, 2 * Points(100))
                /\ (Len(l.anomalies) = 1 /\ l.anomalies[1].severity = "high"
                        /\ l.vendor_risk = 8) => l.fraud_risk_score = 375

\* C2 witness: one high anomaly and a vendor risk of 0.8 gave 37.5.
C2_Witness ==
    \E t \in Threads :
        /\ IsSome(reporter_locals[t])
        /\ Len(Val(reporter_locals[t]).anomalies) = 1
        /\ Val(reporter_locals[t]).anomalies[1].severity = "high"
        /\ Val(reporter_locals[t]).vendor_risk = 8
        /\ Val(reporter_locals[t]).fraud_risk_score = 375

\* C3: for every score s in [0, 100] the level is critical iff s >= 70, high
\* iff 40 <= s < 70, medium iff 20 <= s < 40 and low iff s < 20, for the
\* reporter's inline expression and for calculate_risk_level alike.
C3_RiskLevels ==
    IsSome(probe.inline) =>
        LET s == probe.score
            label == Val(probe.inline)[2]
        IN  /\ label = Val(probe.live)
            /\ label \in {"CRITICAL", "HIGH", "MEDIUM", "LOW"}
            /\ (label = "CRITICAL") <=> (s >= 700)
            /\ (label = "HIGH") <=> (400 <= s /\ s < 700)
            /\ (label = "MEDIUM") <=> (200 <= s /\ s < 400)
            /\ (label = "LOW") <=> (s < 200)

\* C3 witness: both functions evaluated on exactly 70 gave critical.
C3_Witness ==
    /\ probe.score = 700
    /\ probe.inline = Some(<<"red", "CRITICAL">>)
    /\ probe.live = Some("CRITICAL")

\* The anomaly detector of thread t has just returned its list of flags.
DetectorReturned(t) ==
    /\ pc[t] = "reporter"
    /\ audit[t].current_node = "anomaly_detector"
    /\ \A i \in 1..Len(audit[t].errors) : audit[t].errors[i] # "Anomaly detection error"

FlagsOfType(anomalies, flag_type) ==
    SelectSeq(anomalies, LAMBDA f : f.flag_type = flag_type)

\* The severity the thresholds give a unit price u against an average a
ThresholdSeverity(u, a) ==
    IF (u - a) * 100 > 50 * a THEN "critical"
    ELSE IF (u - a) * 100 > 30 * a THEN "high"
    ELSE "medium"

\* C4: with a known historical average avg, the detector emits a
\* price_inflation flag for a line item iff unit_price > avg * 1.20, one flag
\* per qualifying line item in the order of the items; the flag's percentage
\* is (unit_price - avg) / avg * 100 and its severity critical above 50, high
\* above 30, medium otherwise.
C4_PriceInflation ==
    \A t \in Threads :
        (DetectorReturned(t) /\ IsSome(Val(audit[t].verification_result).historical_avg_price)) =>
            LET avg == Val(Val(audit[t].verification_result).historical_avg_price)
                qualifying == SelectSeq(Val(audit[t].extracted_data).line_items,
                                        LAMBDA it : 5 * it.unit_price > 6 * avg)
                emitted == FlagsOfType(audit[t].anomalies, "price_inflation")
            IN  /\ Len(emitted) = Len(qualifying)
                /\ \A k \in 1..Len(emitted) :
                      LET u == qualifying[k].unit_price
                          ev == emitted[k].evidence
                      IN  /\ ev.item = qualifying[k].item
                          /\ ev.current_price = u
                          /\ ev.historical_avg_price = avg
                          /\ ev.inflation_percentage.den > 0
                          /\ ev.inflation_percentage.num * avg
                                = (u - avg) * 100 * ev.inflation_percentage.den
                          /\ emitted[k].severity = ThresholdSeverity(u, avg)

\* C4 witness: items at 48 (exactly 1.2 times the average of 40, no flag) and
\* at 52 (30%: medium) and at 61 (52.5%: critical) have been through the rule.
C4_Witness ==
    \E t \in Threads :
        /\ DetectorReturned(t)
        /\ Val(audit[t].verification_result).historical_avg_price = Some(40)
        /\ \E p \in {48, 52} :
              /\ Val(audit[t].extracted_data).line_items = <<Item(Pen, p), Item(Pen, 61)>>
              /\ LET emitted == FlagsOfType(audit[t].anomalies, "price_inflation")
                 IN  IF p = 48
                     THEN Len(emitted) = 1 /\ emitted[1].severity = "critical"
                     ELSE Len(emitted) = 2 /\ emitted[1].severity = "medium"
                                           /\ emitted[2].severity = "critical"

\* A price_inflation flag for a unit price of 50.00 against an average of 40.00
ScenarioAFlag(f) ==
    /\ f.flag_type = "price_inflation"
    /\ f.evidence.current_price = 50
    /\ f.evidence.historical_avg_price = 40

\* The reporter of thread t has scored exactly one Scenario A flag, with no
\* vendor-risk multiplier.
ScenarioAScored(t) ==
    /\ IsSome(reporter_locals[t])
    /\ Len(Val(reporter_locals[t]).anomalies) = 1
    /\ ScenarioAFlag(Val(reporter_locals[t]).anomalies[1])
    /\ Val(reporter_locals[t]).vendor_risk <= 7

LedgerReferences == {e.reference_number : e \in past_expenditures}

\* C6: whenever the extracted reference number is among the ledger's
\* expenditure records, the list the detector produces holds a critical
\* duplicate_invoice flag for it, whatever the vendor, registration date,
\* amount, line items and risk score are.
C6_DuplicateInvoice ==
    \A t \in Threads :
        (DetectorReturned(t)
            /\ Val(audit[t].extracted_data).reference_number \in LedgerReferences) =>
            \E i \in 1..Len(audit[t].anomalies) :
                /\ audit[t].anomalies[i].flag_type = "duplicate_invoice"
                /\ audit[t].anomalies[i].severity = "critical"
                /\ audit[t].anomalies[i].evidence.reference_number
                       = Val(audit[t].extracted_data).reference_number

\* C6 witness: a recorded reference number on a document of an unknown vendor
\* with an inflated line item has been flagged as a duplicate.
C6_Witness ==
    \E t \in Threads :
        /\ DetectorReturned(t)
        /\ Val(audit[t].extracted_data).reference_number = "INV-2023-001"
        /\ ~Val(audit[t].verification_result).vendor_exists
        /\ FlagsOfType(audit[t].anomalies, "price_inflation") # <<>>
        /\ FlagsOfType(audit[t].anomalies, "duplicate_invoice") # <<>>

\* C7: a vendor risk score above 0.7 yields a high_risk_vendor flag of
\* severity high in the detector's list and the reporter multiplies the sum of
\* the weights by 1.5 before clamping; a score of 0.7 or less yields neither.
C7_HighRiskVendor ==
    \A t \in Threads :
        /\ DetectorReturned(t) =>
              LET risk == Val(audit[t].verification_result).vendor_risk_score
                  emitted == FlagsOfType(audit[t].anomalies, "high_risk_vendor")
              IN  /\ (risk > 7) => (Len(emitted) = 1 /\ emitted[1].severity = "high")
                  /\ (risk <= 7) => emitted = <<>>
        /\ IsSome(reporter_locals[t]) =>
              LET l == Val(reporter_locals[t])
              IN  /\ l.vendor_risk = VendorRiskOf(audit[t].verification_result)
                  /\ (l.vendor_risk > 7) => 4 * l.base_score = 3 * TwiceWeightSum(l.anomalies)
                  /\ (l.vendor_risk <= 7) => 2 * l.base_score = TwiceWeightSum(l.anomalies)
                  /\ l.fraud_risk_score = MinOf(l.base_score, Points(100))

\* C7 witness: the reporter has scored a list holding the high_risk_vendor
\* flag of a vendor of risk 0.8, and the multiplied sum exceeded 100 before
\* the clamp.
C7_Witness ==
    \E t \in Threads :
        /\ IsSome(reporter_locals[t])
        /\ Val(reporter_locals[t]).vendor_risk = 8
        /\ FlagsOfType(Val(reporter_locals[t]).anomalies, "high_risk_vendor") # <<>>
        /\ TwiceWeightSum(Val(reporter_locals[t]).anomalies) < 2 * Points(100)
        /\ Val(reporter_locals[t]).base_score > Points(100)
        /\ Val(reporter_locals[t]).fraud_risk_score = Points(100)

\* C8: an unknown vendor gets exactly one ghost_vendor flag, critical; a known
\* vendor gets one ghost_vendor flag, high, iff it was registered less than
\* 180 days ago and the amount exceeds 50,000; nothing else gives a
\* ghost_vendor flag.
C8_GhostVendor ==
    \A t \in Threads :
        DetectorReturned(t) =>
            LET d == Val(audit[t].extracted_data)
                vr == Val(audit[t].verification_result)
                emitted == FlagsOfType(audit[t].anomalies, "ghost_vendor")
                recent == /\ IsSome(vr.vendor_registration_date)
                          /\ Today - Val(vr.vendor_registration_date) <= 179
            IN  IF ~vr.vendor_exists
                THEN Len(emitted) = 1 /\ emitted[1].severity = "critical"
                ELSE IF recent /\ d.amount > 50000
                     THEN Len(emitted) = 1 /\ emitted[1].severity = "high"
                     ELSE emitted = <<>>

\* C8 witness: a vendor registered 179 days ago with an amount of exactly
\* 50,000 has been through the detector and got no ghost_vendor flag.
C8_Witness ==
    \E t \in Threads :
        /\ DetectorReturned(t)
        /\ Val(audit[t].verification_result).vendor_exists
        /\ Val(audit[t].verification_result).vendor_registration_date = Some(Today - 179)
        /\ Val(audit[t].extracted_data).amount = 50000
        /\ FlagsOfType(audit[t].anomalies, "ghost_vendor") = <<>>

\* The run of thread t is over and its extractor, verifier and anomaly
\* detector stages all succeeded on a document whose vendor is not in the
\* ledger and which triggers no other rule.
GhostOnlyRun(t) ==
    /\ pc[t] = "END"
    /\ IsSome(audit[t].extracted_data)
    /\ IsSome(audit[t].verification_result)
    /\ \A i \in 1..Len(audit[t].errors) :
          audit[t].errors[i] \notin {"Extraction error", "Verification error",
                                     "Anomaly detection error"}
    /\ LET d == Val(audit[t].extracted_data)
           vr == Val(audit[t].verification_result)
       IN  /\ ~vr.vendor_exists
           /\ d.reference_number \notin LedgerReferences
           /\ \/ ~IsSome(vr.historical_avg_price)
              \/ \A j \in 1..Len(d.line_items) :
                    5 * d.line_items[j].unit_price <= 6 * Val(vr.historical_avg_price)

\* C9 as stated: end to end, a document whose vendor is absent from the ledger
\* and which triggers no other rule ends with exactly one anomaly, a critical
\* ghost_vendor flag, with fraud_risk_score = 40 and the risk level high.
C9_Original ==
    \A t \in Threads :
        GhostOnlyRun(t) =>
            /\ Len(audit[t].anomalies) = 1
            /\ audit[t].anomalies[1].flag_type = "ghost_vendor"
            /\ audit[t].anomalies[1].severity = "critical"
            /\ audit[t].fraud_risk_score = Points(40)
            /\ calculate_risk_level(audit[t].fraud_risk_score) = "HIGH"

\* What the run of C9 ends with instead: the reporter computed 40 and HIGH
\* when it got as far as the level, recorded a report generation error, left
\* fraud_risk_score at 0.0 and the report empty, saved no flag, and the
\* anomaly list holds the ghost_vendor flag twice.
C9_Observed ==
    \A t \in Threads :
        GhostOnlyRun(t) =>
            /\ Len(audit[t].anomalies) = 2
            /\ audit[t].anomalies[1] = audit[t].anomalies[2]
            /\ audit[t].anomalies[1].flag_type = "ghost_vendor"
            /\ audit[t].anomalies[1].severity = "critical"
            /\ audit[t].fraud_risk_score = 0
            /\ audit[t].final_report = ""
            /\ audit[t].errors = <<"Report generation error">>
            /\ flags = <<>>
            /\ Val(reporter_locals[t]).fraud_risk_score = Points(40)
            /\ Val(reporter_locals[t]).risk_level \in {None, Some(<<"orange", "HIGH">>)}

\* A run of the kind C9 is about has ended.
C9_Reached == \E t \in Threads : GhostOnlyRun(t)

\* C10: whichever of the extractor, verifier, anomaly detector and reporter
\* succeed or raise, a started analysis eventually reaches the end of the
\* graph with current_node = reporter.
C10_ReachesTerminal ==
    <>(\A t \in Threads : pc[t] = "END" /\ audit[t].current_node = "reporter")

\* C10 witness: a run in which all four stages raised has reached the end of
\* the graph with current_node = reporter.
C10_Witness ==
    \E t \in Threads :
        /\ pc[t] = "END"
        /\ audit[t].current_node = "reporter"
        /\ audit[t].errors = <<"Extraction error", "Verification error",
                               "Anomaly detection error", "Report generation error">>

----------------------------------------------------------------------------
(* Properties of the stage transitions *)

StageNames == {Stages[i] : i \in 1..Len(Stages)}

\* The node the graph's edges lead to after a stage
NextStage(stage) ==
    CASE stage = "extractor" -> "verifier"
      [] stage = "verifier" -> "anomaly_detector"
      [] stage = "anomaly_detector" -> "reporter"
      [] stage = "reporter" -> "END"

\* The error string a stage records when it fails
ErrorOf(stage) ==
    CASE stage = "extractor" -> "Extraction error"
      [] stage = "verifier" -> "Verification error"
      [] stage = "anomaly_detector" -> "Anomaly detection error"
      [] stage = "reporter" -> "Report generation error"

\* The output field(s) of a stage in an audit state
OutputOf(stage, state) ==
    CASE stage = "extractor" -> state.extracted_data
      [] stage = "verifier" -> state.verification_result
      [] stage = "anomaly_detector" -> state.anomalies
      [] stage = "reporter" -> <<state.fraud_risk_score, state.final_report,
                                 state.recommendations>>

\* The step from state before to state after is a stage that populated its
\* output field (the detector's output is its list of flags, which is empty
\* for a document that triggers no rule).
StagePopulated(stage, before, after) ==
    CASE stage = "extractor" -> IsSome(after.extracted_data)
      [] stage = "verifier" -> IsSome(after.verification_result)
      [] stage = "anomaly_detector" ->
            /\ IsSome(before.extracted_data) /\ IsSome(before.verification_result)
            /\ after.errors = before.errors
            /\ after.anomalies = before.anomalies
                   \o DetectAnomalies(Val(before.extracted_data),
                                      Val(before.verification_result))
      [] stage = "reporter" -> after.final_report # "" /\ after.recommendations # <<>>

\* The step is a stage that failed: one error string of the stage appended,
\* the stage's output field as before.
StageFailed(stage, before, after) ==
    /\ after.errors = Append(before.errors, ErrorOf(stage))
    /\ OutputOf(stage, after) = OutputOf(stage, before)

\* Thread t takes the step of the given stage.
StageRuns(t, stage) == pc[t] = stage /\ pc'[t] # stage

\* C11 as stated: each of the four stages either succeeds, setting
\* current_node to its own name and populating its output field, or fails,
\* appending an error string to the error list, leaving its output field as it
\* was and setting current_node to its own name; either way the next stage
\* runs.
C11_Original ==
    [][\A t \in Threads : \A stage \in StageNames :
          StageRuns(t, stage) =>
             /\ audit'[t].current_node = stage
             /\ pc'[t] = NextStage(stage)
             /\ \/ StagePopulated(stage, audit[t], audit'[t])
                \/ StageFailed(stage, audit[t], audit'[t])]_vars

\* What the stages do instead: as C11 states, except that the extractor can
\* return without an error and without a document (the model's answer parsed
\* to null or to an empty object), leaving the error to the verifier.
C11_Observed ==
    [][\A t \in Threads : \A stage \in StageNames :
          StageRuns(t, stage) =>
             /\ audit'[t].current_node = stage
             /\ pc'[t] = NextStage(stage)
             /\ \/ StagePopulated(stage, audit[t], audit'[t])
                \/ StageFailed(stage, audit[t], audit'[t])
                \/ /\ stage = "extractor"
                   /\ audit'[t].extracted_data = None
                   /\ audit'[t].errors = audit[t].errors]_vars

\* The extractor has returned without a document and without an error, and
\* the verifier has recorded the failure.
C11_Reached ==
    \E t \in Threads :
        /\ pc[t] = "anomaly_detector"
        /\ audit[t].extracted_data = None
        /\ audit[t].errors = <<"Verification error">>

\* s is a prefix of r
IsPrefix(s, r) == Len(s) <= Len(r) /\ SubSeq(r, 1, Len(s)) = s

\* C12: no step of a run clears or changes a populated field (extracted_data,
\* verification_result, fraud_risk_score, final_report, recommendations), and
\* the error list and the anomaly list before a step are prefixes of the lists
\* after it.
C12_PopulatedFieldsKept ==
    [][\A t \in Threads :
          LET before == audit[t]
              after == audit'[t]
          IN  /\ IsSome(before.extracted_data) =>
                    after.extracted_data = before.extracted_data
              /\ IsSome(before.verification_result) =>
                    after.verification_result = before.verification_result
              /\ before.fraud_risk_score # 0 =>
                    after.fraud_risk_score = before.fraud_risk_score
              /\ before.final_report # "" => after.final_report = before.final_report
              /\ before.recommendations # <<>> =>
                    after.recommendations = before.recommendations
              /\ IsPrefix(before.errors, after.errors)
              /\ IsPrefix(before.anomalies, after.anomalies)]_vars

\* C12 witness: a run has ended with the document and the verification result
\* still in place after the two later stages, which recorded their errors one
\* after the other.
C12_Witness ==
    \E t \in Threads :
        /\ pc[t] = "END"
        /\ IsSome(audit[t].extracted_data)
        /\ IsSome(audit[t].verification_result)
        /\ audit[t].errors = <<"Anomaly detection error", "Report generation error">>

\* C13: once all four stages of an analysis have run, the audit retrieval
\* reports 'completed', even if every stage failed; it reports 'failed' only
\* for a checkpoint whose current_node is not reporter and whose error list is
\* not empty, and 'processing' only for one whose current_node is not reporter
\* and whose error list is empty.
C13_RetrievalStatus ==
    \A t \in Threads :
        LET response == get_audit(t)
        IN  /\ executed[t] = Stages => response.status = "completed"
            /\ response.status = "failed" =>
                  audit[t].current_node # "reporter" /\ audit[t].errors # <<>>
            /\ response.status = "processing" =>
                  audit[t].current_node # "reporter" /\ audit[t].errors = <<>>
            /\ response.status \in {"completed", "failed", "processing"}

\* C13 witness: all four stages have run and each of them failed, and the
\* retrieval reports 'completed' together with the four errors.
C13_Witness ==
    \E t \in Threads :
        /\ executed[t] = Stages
        /\ Len(audit[t].errors) = 4
        /\ get_audit(t).status = "completed"
        /\ get_audit(t).errors = audit[t].errors

\* The number of entries of a list equal to x
Occurrences(list, x) == Cardinality({i \in 1..Len(list) : list[i] = x})

\* C14: within a run the stages execute in the order extractor, verifier,
\* anomaly_detector, reporter, each at most once and one after the other: the
\* stages executed so far are the first ones of that order, the graph is at
\* the next one, the last one executed is the one that set current_node, and
\* no stage has recorded its error twice.
C14_StageOrder ==
    \A t \in Threads :
        /\ IsPrefix(executed[t], Stages)
        /\ pc[t] = IF executed[t] = Stages THEN "END"
                   ELSE Stages[Len(executed[t]) + 1]
        /\ executed[t] # <<>> =>
              audit[t].current_node = executed[t][Len(executed[t])]
        /\ \A stage \in StageNames :
              Occurrences(audit[t].errors, ErrorOf(stage)) <= 1

\* C14 witness: a run whose verifier failed has ended; the verifier was
\* executed once and the two stages after it ran.
C14_Witness ==
    \E t \in Threads :
        /\ pc[t] = "END"
        /\ executed[t] = Stages
        /\ IsSome(audit[t].extracted_data)
        /\ audit[t].errors = <<"Verification error", "Anomaly detection error",
                               "Report generation error">>

\* The rows of the flags table that belong to a thread
FlagRowsOf(t) == SelectSeq(flags, LAMBDA row : row.thread_id = t)

\* The reporter of thread t has run on the flags the detector produced and got
\* as far as the report: score computed, recommendations obtained.
ReporterReachedReport(t) ==
    /\ executed[t] = Stages
    /\ IsSome(reporter_locals[t])
    /\ IsSome(Val(reporter_locals[t]).risk_level)

\* C15 as stated: before the reporter stage of a thread has run the ledger
\* holds no flag row of the thread; after a reporter stage that had the
\* detector's flags and got its recommendations (all a successful reporter
\* stage needs), it holds exactly one row per flag detected, every row with the
\* fraud-risk score stored in the audit state.
C15_Original ==
    \A t \in Threads :
        /\ Occurrences(executed[t], "reporter") = 0 => FlagRowsOf(t) = <<>>
        /\ ReporterReachedReport(t) =>
              /\ Len(FlagRowsOf(t)) = Len(Val(reporter_locals[t]).anomalies)
              /\ \A i \in 1..Len(FlagRowsOf(t)) :
                    /\ FlagRowsOf(t)[i].flag_type
                           = Val(reporter_locals[t]).anomalies[i].flag_type
                    /\ FlagRowsOf(t)[i].fraud_risk_score = audit[t].fraud_risk_score

\* What the ledger holds instead: no stage before the reporter writes a flag
\* row, and the reporter, which raises while it renders the report, never
\* gets to the loop that saves them: the flags table stays empty and the
\* stored score stays 0.0, whatever the detector found.
C15_Observed ==
    \A t \in Threads :
        /\ FlagRowsOf(t) = <<>>
        /\ audit[t].fraud_risk_score = 0
        /\ executed[t] = Stages =>
              Occurrences(audit[t].errors, "Report generation error") = 1

\* The reporter has run on a list of detected flags and got as far as the
\* report.
C15_Reached ==
    \E t \in Threads :
        /\ ReporterReachedReport(t)
        /\ Val(reporter_locals[t]).anomalies # <<>>
        /\ Val(reporter_locals[t]).fraud_risk_score > 0

\* C16 as stated: invoking the graph again with a thread id that has a
\* checkpoint resumes from the last checkpointed stage: no stage is executed a
\* second time for the thread id, and no stage's error is recorded again.
C16_Original ==
    \A t \in Threads : \A stage \in StageNames :
        /\ Occurrences(executed[t], stage) <= 1
        /\ Occurrences(audit[t].errors, ErrorOf(stage)) <= 1

\* What the second invocation does instead: it starts at the extractor with
\* the fields of the input, runs the four stages again, and the lists of the
\* first run are still in the channels (and are added to themselves by every
\* node of the second run that returns {**state, ...}).
C16_Observed ==
    /\ [](\A t \in Threads :
            /\ Len(executed[t]) <= 4 * MaxRuns
            /\ \A i \in 1..Len(executed[t]) :
                  executed[t][i] = Stages[((i - 1) % 4) + 1]
            /\ Occurrences(audit[t].errors, "Report generation error")
                  >= Len(executed[t]) \div 4)
    /\ [][\A t \in Threads :
            (pc[t] = "END" /\ pc'[t] # "END") =>
               /\ pc'[t] = "extractor"
               /\ audit'[t].extracted_data = None
               /\ audit'[t].verification_result = None
               /\ audit'[t].current_node = ""
               /\ audit'[t].errors = audit[t].errors
               /\ audit'[t].anomalies = audit[t].anomalies]_vars

\* The second run of a thread id has ended: all four stages were executed
\* twice.
C16_Reached ==
    \E t \in Threads :
        /\ pc[t] = "END"
        /\ executed[t] = Stages \o Stages
        /\ Occurrences(audit[t].errors, "Report generation error") = 2

\* C17: whatever analyses have run, one after the other or at the same time,
\* succeeding or failing, the vendors and the expenditure records are what
\* they were before the first analysis; the flags table holds rows only of
\* threads whose reporter has run; and in every analysis the duplicate check
\* answers the same for the same reference number: a duplicate_invoice flag
\* in the detector's list iff the reference is one of the original records.
C17_LedgerReadOnly ==
    /\ vendors = SeedVendors
    /\ past_expenditures = SeedExpenditures
    /\ \A t \in Uploads :
          /\ FlagRowsOf(t) # <<>> => Occurrences(executed[t], "reporter") > 0
          /\ DetectorReturned(t) =>
                LET ref == Val(audit[t].extracted_data).reference_number
                    original == {e.reference_number : e \in SeedExpenditures}
                IN  /\ IsSome(check_duplicate_reference(ref)) <=> ref \in original
                    /\ FlagsOfType(audit[t].anomalies, "duplicate_invoice") # <<>>
                          <=> ref \in original

\* C17 witness: the first upload's analysis has ended and the second upload's
\* detector has just checked the same recorded reference number; the first
\* analysis was told it is a duplicate, and so is the second.
C17_Witness ==
    /\ pc["t1"] = "END"
    /\ DetectorReturned("t2")
    /\ IsSome(audit["t1"].extracted_data)
    /\ Val(audit["t1"].extracted_data).reference_number = "INV-2023-001"
    /\ Val(audit["t2"].extracted_data).reference_number = "INV-2023-001"
    /\ FlagsOfType(audit["t1"].anomalies, "duplicate_invoice") # <<>>
    /\ FlagsOfType(audit["t2"].anomalies, "duplicate_invoice") # <<>>
    /\ past_expenditures = SeedExpenditures

\* The verifier of thread t has just returned a verification result.
VerifierReturned(t) ==
    /\ pc[t] = "anomaly_detector"
    /\ audit[t].current_node = "verifier"
    /\ IsSome(audit[t].verification_result)

\* The verification result vr describes the vendor row v.
DescribesVendor(vr, v) ==
    /\ vr.vendor_exists
    /\ vr.vendor_registration_date = Some(v.registration_date)
    /\ vr.vendor_risk_score = v.risk_score

\* C18: if the document's vendor identifier is present and is the identifier
\* of a ledger vendor, the verification result describes that vendor, whatever
\* the name matches; otherwise it describes a vendor whose name contains the
\* document's vendor name, case ignored, when there is one (a document without
\* a vendor name gets no lookup by name); vendor_exists is true iff one of the
\* two lookups found a vendor, and without one vendor_risk_score is 0.0.
C18_VendorResolution ==
    \A t \in Threads :
        VerifierReturned(t) =>
            LET d == Val(audit[t].extracted_data)
                vr == Val(audit[t].verification_result)
                by_id == {v \in vendors :
                             d.vendor_id # "" /\ v.vendor_id = d.vendor_id}
                by_name == {v \in vendors :
                               d.vendor_name # <<>> /\ ILike(v.vendor_name, d.vendor_name)}
            IN  /\ by_id # {} => \E v \in by_id : DescribesVendor(vr, v)
                /\ (by_id = {} /\ by_name # {}) =>
                      \E v \in by_name : DescribesVendor(vr, v)
                /\ vr.vendor_exists <=> (by_id # {} \/ by_name # {})
                /\ ~vr.vendor_exists =>
                      /\ vr.vendor_risk_score = 0
                      /\ vr.vendor_registration_date = None

\* C18 witness: a document with the identifier of one vendor (VND004, risk
\* 0.8) and a name that matches two others has been verified and resolved to
\* the vendor of the identifier.
C18_Witness ==
    \E t \in Threads :
        /\ VerifierReturned(t)
        /\ Val(audit[t].extracted_data).vendor_id = "VND004"
        /\ Val(audit[t].extracted_data).vendor_name = <<"a", "b">>
        /\ Cardinality({v \in vendors : ILike(v.vendor_name, <<"a", "b">>)}) = 2
        /\ Val(audit[t].verification_result).vendor_risk_score = 8

\* The expenditure records inside the 24-month window whose description
\* contains desc, case ignored
RecordsInWindow(desc) ==
    {e \in past_expenditures :
        /\ ILike(e.item_description, desc)
        /\ \/ e.transaction_date.ym > CurrentDate.ym - 24
           \/ /\ e.transaction_date.ym = CurrentDate.ym - 24
              /\ e.transaction_date.d >= CurrentDate.d}

\* C19: if no expenditure record inside the 24-month window matches the
\* description the verifier looks up (that of the first line item), or the
\* matching records average to zero, the verification result has no
\* historical_avg_price, and the detector's list holds no price_inflation flag
\* at all; every price_inflation flag that is emitted divides by a known
\* average above zero.
C19_NoAverageNoInflationFlag ==
    \A t \in Threads :
        /\ (VerifierReturned(t) \/ DetectorReturned(t)) =>
              LET d == Val(audit[t].extracted_data)
                  vr == Val(audit[t].verification_result)
                  rows == RecordsInWindow(d.line_items[1].item)
              IN  (d.line_items # <<>>
                      /\ (rows = {} \/ \A e \in rows : e.unit_price = 0)) =>
                     /\ vr.historical_avg_price = None
                     /\ FlagsOfType(audit[t].anomalies, "price_inflation") = <<>>
        /\ \A i \in 1..Len(audit[t].anomalies) :
              audit[t].anomalies[i].flag_type = "price_inflation" =>
                 /\ IsSome(Val(audit[t].verification_result).historical_avg_price)
                 /\ audit[t].anomalies[i].evidence.historical_avg_price > 0
                 /\ audit[t].anomalies[i].evidence.inflation_percentage.den > 0

\* C19 witness: a document whose first line item is described only by a
\* record one day outside the window, followed by an item priced above 1.2
\* times the average of its own records, has been through the detector
\* without a price_inflation flag.
C19_Witness ==
    \E t \in Threads :
        /\ DetectorReturned(t)
        /\ Val(audit[t].extracted_data).line_items = <<Item(Ink, 61), Item(Pen, 49)>>
        /\ \E e \in past_expenditures : ILike(e.item_description, Ink)
        /\ Val(audit[t].verification_result).historical_avg_price = None
        /\ FlagsOfType(audit[t].anomalies, "price_inflation") = <<>>

\* The list holds a flag of the type
HasFlag(anomalies, flag_type) == FlagsOfType(anomalies, flag_type) # <<>>

\* C20: each rule fires whenever its own condition holds, whichever other
\* rules fire for the same document: an unknown vendor, or one registered less
\* than 180 days ago with an amount above 50,000, gets a ghost_vendor flag; a
\* line item above 1.2 times the known average a price_inflation flag; a
\* recorded reference number a duplicate_invoice flag; a vendor risk above 0.7
\* a high_risk_vendor flag.
C20_NoSuppression ==
    \A t \in Threads :
        DetectorReturned(t) =>
            LET d == Val(audit[t].extracted_data)
                vr == Val(audit[t].verification_result)
                anomalies == audit[t].anomalies
            IN  /\ (~vr.vendor_exists
                    \/ (/\ IsSome(vr.vendor_registration_date)
                        /\ Today - Val(vr.vendor_registration_date) < 180
                        /\ d.amount > 50000)) =>
                       HasFlag(anomalies, "ghost_vendor")
                /\ (/\ IsSome(vr.historical_avg_price)
                    /\ \E j \in 1..Len(d.line_items) :
                          5 * d.line_items[j].unit_price
                              > 6 * Val(vr.historical_avg_price)) =>
                       HasFlag(anomalies, "price_inflation")
                /\ (\E e \in past_expenditures :
                       d.reference_number # "" /\ e.reference_number = d.reference_number) =>
                       HasFlag(anomalies, "duplicate_invoice")
                /\ vr.vendor_risk_score > 7 => HasFlag(anomalies, "high_risk_vendor")

\* C20 witness: one analysis of a document of vendor VND004 (registered 179
\* days ago, risk 0.8) for 50,001 with a pen at 49 against an average of 40
\* and a recorded reference number has emitted a ghost_vendor, a
\* price_inflation, a duplicate_invoice and a high_risk_vendor flag together.
C20_Witness ==
    \E t \in Threads :
        /\ DetectorReturned(t)
        /\ executed[t] = <<"extractor", "verifier", "anomaly_detector">>
        /\ Val(audit[t].extracted_data).vendor_id = "VND004"
        /\ HasFlag(audit[t].anomalies, "ghost_vendor")
        /\ HasFlag(audit[t].anomalies, "price_inflation")
        /\ HasFlag(audit[t].anomalies, "duplicate_invoice")
        /\ HasFlag(audit[t].anomalies, "high_risk_vendor")
        /\ Len(audit[t].anomalies) = 4

----------------------------------------------------------------------------
(* Properties of the live analysis and of the cache *)

\* The last live analysis got an answer that cannot be parsed as a document.
MalformedAnswer ==
    /\ probe.call = "analyze_document"
    /\ probe.response.kind \in {"bad_json", "no_json"}

\* C21 as stated, for the live image-processing path: when the model's answer
\* cannot be parsed as the structured document, the analysis records the
\* failure: its result is not a completed analysis of a placeholder document.
C21_Original ==
    MalformedAnswer =>
        /\ probe.result.status # "completed"
        /\ probe.result.extracted_data # create_fallback_data

\* What the live path does instead: the placeholder document is analysed as
\* if it had been extracted; the result is 'completed' with the placeholder's
\* missing_vendor_id flag and a score of 30, and nothing in it says that the
\* answer was unusable.
C21_Observed ==
    MalformedAnswer =>
        /\ probe.result.status = "completed"
        /\ probe.result.extracted_data = create_fallback_data
        /\ probe.result.anomalies = <<LiveFlag("missing_vendor_id", "HIGH")>>
        /\ probe.result.fraud_risk_score = Points(30)
        /\ get(analyses_cache, probe.thread_id) = Some(probe.result)

\* A live analysis of an answer without a JSON object has been stored.
C21_Reached ==
    /\ MalformedAnswer
    /\ probe.response.kind = "no_json"
    /\ probe.thread_id \in CacheKeys(analyses_cache)

----------------------------------------------------------------------------
(* Properties of concurrent analyses, of cascading failures and of the lists
   of the checkpointed state *)

\* The states an analysis of one of docs is in after its first k stages when
\* it runs with no other analysis, against the ledger as it is.
RECURSIVE AloneStates(_, _, _)
AloneStates(t, docs, k) ==
    IF k = 0 THEN {InitialState(t)}
    ELSE LET before == AloneStates(t, docs, k - 1)
             returned(s) ==
                 IF Stages[k] = "extractor" THEN extractor_node(s, docs)
                 ELSE IF Stages[k] = "verifier" THEN verifier_node(s)
                 ELSE IF Stages[k] = "anomaly_detector" THEN anomaly_detector_node(s)
                 ELSE {out.ret : out \in reporter_node(s)}
         IN  UNION {{ApplyUpdate(s, ret) : ret \in returned(s)} : s \in before}

RECURSIVE ItemScopedFlags(_)
ItemScopedFlags(line_items) ==
    IF line_items = <<>> THEN <<>>
    ELSE LET item == Head(line_items)
             rows == RecordsInWindow(item.item)
             own == IF rows = {} THEN 0 ELSE SumPrices(rows) \div Cardinality(rows)
         IN  (IF own # 0 THEN PriceInflationFlags(<<item>>, own) ELSE <<>>)
                \o ItemScopedFlags(Tail(line_items))

\* C23 as stated: the price_inflation flags of the detector's list are those
\* of the item-scoped check: each line item is flagged when its price is more
\* than 1.2 times the average of the records matching its own description,
\* and the flag's evidence holds that average.
C23_Original ==
    \A t \in Threads :
        DetectorReturned(t) =>
            FlagsOfType(audit[t].anomalies, "price_inflation")
                = ItemScopedFlags(Val(audit[t].extracted_data).line_items)

\* What the two stages do instead: one average, that of the records matching
\* the FIRST line item's description, is compared with every line item.
C23_Observed ==
    \A t \in Threads :
        DetectorReturned(t) =>
            LET line_items == Val(audit[t].extracted_data).line_items
                rows == RecordsInWindow(line_items[1].item)
                first == IF rows = {} THEN 0 ELSE SumPrices(rows) \div Cardinality(rows)
            IN  FlagsOfType(audit[t].anomalies, "price_inflation")
                    = IF line_items # <<>> /\ first # 0
                      THEN PriceInflationFlags(line_items, first)
                      ELSE <<>>

\* An item that no expenditure record describes, listed after a pen, has been
\* flagged against the average price of pens; the item-scoped check flags the
\* pen only.
C23_Reached ==
    \E t \in Threads :
        /\ DetectorReturned(t)
        /\ Val(audit[t].extracted_data).line_items = <<Item(Pen, 49), Item(<<"z", "z">>, 61)>>
        /\ RecordsInWindow(<<"z", "z">>) = {}
        /\ Len(ItemScopedFlags(<<Item(Pen, 49), Item(<<"z", "z">>, 61)>>)) = 1
        /\ Len(FlagsOfType(audit[t].anomalies, "price_inflation")) = 2
        /\ FlagsOfType(audit[t].anomalies, "price_inflation")[2].evidence.item = <<"z", "z">>
        /\ FlagsOfType(audit[t].anomalies, "price_inflation")[2].evidence.historical_avg_price = 40

\* The four error entries in stage order
AllErrors ==
    <<"Extraction error", "Verification error", "Anomaly detection error",
      "Report generation error">>

\* C24: failures cascade.  When the extraction stage has failed (no document
\* in the state after it), the verifier, the detector and the reporter fail
\* one after the other: the run ends with current_node = reporter, the errors
\* of verification, anomaly detection and report generation in stage order
\* after the extractor's, an empty anomaly list, a score of 0 and no flag row.
\* When the verification stage alone has failed, the two later stages fail:
\* the run ends with the three errors in stage order, no anomaly, score 0 and
\* no flag row.  Step by step: the verifier run without a document records
\* its error and no result, the detector run without a verification result
\* records its error and no flag.
C24_FailuresCascade ==
    \A t \in Threads :
        /\ (pc[t] = "END" /\ audit[t].errors # <<>>
                /\ audit[t].errors[1] = "Extraction error") =>
              /\ audit[t].errors = AllErrors
              /\ audit[t].current_node = "reporter"
              /\ audit[t].anomalies = <<>>
              /\ audit[t].fraud_risk_score = 0
              /\ FlagRowsOf(t) = <<>>
        /\ (pc[t] = "END" /\ audit[t].errors # <<>>
                /\ audit[t].errors[1] = "Verification error") =>
              /\ audit[t].errors = Tail(AllErrors)
              /\ audit[t].current_node = "reporter"
              /\ audit[t].anomalies = <<>>
              /\ audit[t].fraud_risk_score = 0
              /\ FlagRowsOf(t) = <<>>
        /\ (pc[t] \in {"anomaly_detector", "reporter", "END"}
                /\ ~IsSome(audit[t].extracted_data)) =>
              /\ ~IsSome(audit[t].verification_result)
              /\ Occurrences(audit[t].errors, "Verification error") = 1
        /\ (pc[t] \in {"reporter", "END"}
                /\ ~IsSome(audit[t].verification_result)) =>
              /\ audit[t].anomalies = <<>>
              /\ Occurrences(audit[t].errors, "Anomaly detection error") = 1

\* C24 witness: a run whose extraction failed has ended with the four errors;
\* nothing was detected, scored or saved.
C24_Witness ==
    \E t \in Threads :
        /\ pc[t] = "END"
        /\ executed[t] = Stages
        /\ audit[t].errors = AllErrors
        /\ audit[t].current_node = "reporter"
        /\ audit[t].anomalies = <<>>
        /\ audit[t].fraud_risk_score = 0
        /\ flags = <<>>

\* C25 as stated, step by step: a stage that runs either fails, adding its
\* own error entry to the error list, or succeeds, leaving the list as it
\* was - the errors of earlier stages are not added a second time.  (At the
\* end of a run the list then holds one entry per failed stage, in stage
\* order.)
C25_Original ==
    [][\A t \in Threads : \A stage \in StageNames :
          StageRuns(t, stage) =>
              \/ audit'[t].errors = audit[t].errors
              \/ audit'[t].errors = Append(audit[t].errors, ErrorOf(stage))]_vars

\* What a stage does to the list: a failing stage adds its entry; a stage
\* that succeeds returns the whole state, the list it was given included, and
\* the list is added to itself.
C25_Observed ==
    [][\A t \in Threads : \A stage \in StageNames :
          StageRuns(t, stage) =>
              \/ audit'[t].errors = audit[t].errors \o audit[t].errors
              \/ audit'[t].errors = Append(audit[t].errors, ErrorOf(stage))]_vars

\* The second run of a thread id has ended; in each run the reporter alone
\* failed, and the list holds its entry nine times.
C25_Reached ==
    \E t \in Threads :
        /\ pc[t] = "END"
        /\ executed[t] = Stages \o Stages
        /\ Len(audit[t].errors) = 9
        /\ \A i \in 1..9 : audit[t].errors[i] = "Report generation error"

\* The list the anomaly detector of a run that has ended produced: the flags
\* of the four rules, or nothing when the stage failed.
DetectorProduced(t) ==
    IF Occurrences(audit[t].errors, "Anomaly detection error") = 0
    THEN DetectAnomalies(Val(audit[t].extracted_data),
                         Val(audit[t].verification_result))
    ELSE <<>>

\* C26 as stated: at the end of a run the anomaly list the audit retrieval
\* returns is the list the detector produced - the same flags in the same
\* order, each once - and the thread has as many flag rows as the list is
\* long.
C26_Original ==
    \A t \in Threads :
        pc[t] = "END" =>
            /\ get_audit(t).anomalies = DetectorProduced(t)
            /\ Len(get_audit(t).anomalies) = Len(FlagRowsOf(t))

\* What the retrieval returns instead: the detector's list twice over (the
\* reporter returns the whole state, the list included, and the list is added
\* to itself), and no flag row at all.
C26_Observed ==
    \A t \in Threads :
        pc[t] = "END" =>
            /\ get_audit(t).anomalies = DetectorProduced(t) \o DetectorProduced(t)
            /\ FlagRowsOf(t) = <<>>

\* A run in which the detector found a duplicate invoice and nothing else has
\* ended: the retrieval lists the flag twice, and the flags table is empty.
C26_Reached ==
    \E t \in Threads :
        /\ pc[t] = "END"
        /\ Len(DetectorProduced(t)) = 1
        /\ DetectorProduced(t)[1].flag_type = "duplicate_invoice"
        /\ get_audit(t).anomalies = <<DetectorProduced(t)[1], DetectorProduced(t)[1]>>
        /\ flags = <<>>

\* C27 as stated: the anomaly list of an analysis holds at most one
\* ghost_vendor flag and at most one high_risk_vendor flag, at any point of
\* the run.
C27_Original ==
    \A t \in Threads :
        /\ Len(FlagsOfType(audit[t].anomalies, "ghost_vendor")) <= 1
        /\ Len(FlagsOfType(audit[t].anomalies, "high_risk_vendor")) <= 1

\* What holds instead.  The list the detector produces has at most one flag
\* of either type, and a critical ghost_vendor flag comes with a vendor risk
\* score of 0: no high_risk_vendor flag beside it, no x1.5 multiplier in the
\* reporter's score.  But once the reporter has run the checkpointed list
\* holds every flag twice.
C27_Observed ==
    \A t \in Threads :
        /\ DetectorReturned(t) =>
              /\ Len(FlagsOfType(audit[t].anomalies, "ghost_vendor")) <= 1
              /\ Len(FlagsOfType(audit[t].anomalies, "high_risk_vendor")) <= 1
        /\ \A i \in 1..Len(audit[t].anomalies) :
              (audit[t].anomalies[i].flag_type = "ghost_vendor"
                  /\ audit[t].anomalies[i].severity = "critical") =>
                 /\ Val(audit[t].verification_result).vendor_risk_score = 0
                 /\ ~HasFlag(audit[t].anomalies, "high_risk_vendor")
                 /\ IsSome(reporter_locals[t]) =>
                       Val(reporter_locals[t]).base_score
                           = BaseScore(Val(reporter_locals[t]).anomalies)
        /\ pc[t] = "END" =>
              /\ Len(FlagsOfType(audit[t].anomalies, "ghost_vendor")) \in {0, 2}
              /\ Len(FlagsOfType(audit[t].anomalies, "high_risk_vendor")) \in {0, 2}

\* A run on a document of a vendor that is not in the ledger has ended: the
\* detector produced one critical ghost_vendor flag, the list holds it twice.
C27_Reached ==
    \E t \in Threads :
        /\ pc[t] = "END"
        /\ Len(DetectorProduced(t)) = 1
        /\ DetectorProduced(t)[1].flag_type = "ghost_vendor"
        /\ DetectorProduced(t)[1].severity = "critical"
        /\ Len(FlagsOfType(audit[t].anomalies, "ghost_vendor")) = 2
        /\ Val(audit[t].verification_result).vendor_risk_score = 0

----------------------------------------------------------------------------
(* Properties of the AnalysisCache *)

\* The thread ids of a cache in the order of their insertion
KeyOrder(cache) == [i \in 1..Len(cache) |-> cache[i].thread_id]

\* C29: after any sequence of add and get calls the cache holds at most
\* max_size entries, one per thread id.  An add made to a full cache removes
\* the entry inserted earliest and no other; an add made to a cache that is
\* not full removes none.  After add(t, d), get(t) returns d, and every other
\* entry still in the cache has the data it had and its place in the order
\* of insertion.  A get returns the data stored under the thread id, None
\* when the cache holds none, and leaves the cache - the order of eviction
\* included - as it was.
C29_CacheBoundAndEviction ==
    /\ Len(analyses_cache) <= max_size
    /\ Cardinality(CacheKeys(analyses_cache)) = Len(analyses_cache)
    /\ probe.call = "add" =>
          LET before == probe.before
              full == Len(before) >= max_size
              evicted == IF full THEN {before[1].thread_id} ELSE {}
              rest == SelectSeq(before, LAMBDA entry : entry.thread_id \notin evicted)
          IN  /\ get(analyses_cache, probe.thread_id) = Some(probe.data)
              /\ KeyOrder(analyses_cache) =
                    IF probe.thread_id \in CacheKeys(rest) THEN KeyOrder(rest)
                    ELSE Append(KeyOrder(rest), probe.thread_id)
              /\ \A i \in 1..Len(rest) :
                    rest[i].thread_id # probe.thread_id =>
                        get(analyses_cache, rest[i].thread_id) = Some(rest[i].data)
    /\ probe.call = "get" =>
          /\ analyses_cache = probe.before
          /\ \A i \in 1..Len(analyses_cache) :
                analyses_cache[i].thread_id = probe.thread_id =>
                    probe.result = Some(analyses_cache[i].data)
          /\ probe.thread_id \notin CacheKeys(analyses_cache) => probe.result = None

\* C29 witness: an add of a new thread id to a full cache has evicted the
\* entry inserted first; the entry inserted second is now the oldest and the
\* new entry the newest.
C29_Witness ==
    /\ probe.call = "add"
    /\ Len(probe.before) = max_size
    /\ probe.thread_id \notin CacheKeys(probe.before)
    /\ probe.before[1].thread_id \notin CacheKeys(analyses_cache)
    /\ Len(analyses_cache) = max_size
    /\ analyses_cache[1] = probe.before[2]
    /\ get(analyses_cache, probe.thread_id) = Some(probe.data)

\* C30 as stated: list_recent(limit), limit >= 0, returns the
\* min(limit, size) entries inserted last, in the order of their insertion;
\* list_recent(0) returns none.
C30_Original ==
    probe.call = "list_recent" =>
        LET size == Len(probe.before)
            n == MinOf(probe.limit, size)
        IN  /\ Len(probe.result) = n
            /\ probe.result = SubSeq(probe.before, size - n + 1, size)

\* What list_recent returns: the entries inserted last, as stated, for every
\* limit above 0; for limit 0 the slice [-0:] is the whole list, and every
\* entry of the cache is returned.
C30_Observed ==
    probe.call = "list_recent" =>
        LET size == Len(probe.before)
            n == IF probe.limit = 0 THEN size ELSE MinOf(probe.limit, size)
        IN  /\ probe.result = SubSeq(probe.before, size - n + 1, size)
            /\ analyses_cache = probe.before

\* list_recent(0) has been called on a full cache and has returned all of it.
C30_Reached ==
    /\ probe.call = "list_recent"
    /\ probe.limit = 0
    /\ Len(probe.before) = max_size
    /\ probe.result = probe.before

====
